---- MODULE Spec2Model ----
(***************************************************************************)
(* State-machine model of acdcli/api/content.py: the resumable chunked     *)
(* download (ContentMixin.download_file, ContentMixin.chunked_download),   *)
(* the tee reader (_TeeBufferedReader), the streaming multipart encoder    *)
(* (_multipart_stream) and the upload entry points.                        *)
(*                                                                         *)
(* Bytes of the remote object are tagged with their 1-based offset, so a   *)
(* duplicated, missing or misplaced byte is always visible.  The two block *)
(* sizes of the source (FS_RW_CHUNK_SZ = 128 KiB, CHUNK_SIZE = 500 MiB)    *)
(* and the default length (100 TiB) are scaled down; nothing in the model  *)
(* depends on their ratio.                                                 *)
(***************************************************************************)
EXTENDS Integers, Sequences, FiniteSets, TLC

\* ---------------------------------------------------------------- bounds
\* scaled stand-in for FS_RW_CHUNK_SZ = 1024 * 128 (content.py:20)
FS_RW_CHUNK_SZ == 2
\* scaled stand-in for CHUNK_SIZE = 500 * 1024 ** 2 (content.py:23)
CHUNK_SIZE == 4
\* scaled stand-in for the default length 100 * 1024 ** 4 (content.py:280)
DEFAULT_LENGTH == 1000
\* largest remote object
MaxLen == 5
\* number of download_file calls in one behaviour
MaxCalls == 2
\* number of registered callbacks
MaxCallbacks == 1
\* largest local file given to upload_file
MaxFile == 4
\* reads made on one tee reader
MaxReads == 3
\* blocks (empty reads included) a stream holds
MaxBlocks == 3
\* length of the object that concurrent invocations download
ConcLen == 2

\* ------------------------------------------------------ program constants
CHUNK_MAX_RETRY == 5
PARTIAL_SUFFIX == ".__incomplete"

Procs == {"t1", "t2"}
DlNames == {"file"}

Min(a, b) == IF a < b THEN a ELSE b

VARIABLES
    remote,       \* the remote object's bytes
    dir,          \* directory: path -> inode number, 0 when the path is absent
    files,        \* inode number -> content
    active,       \* the invocations that may run download_file
    calls,        \* download_file calls made so far
    pc,           \* position of each invocation in download_file/chunked_download
    kwargs,       \* **kwargs of the running call
    dl_path,      \* dl_path of the running call
    fh,           \* the local f: the handle on the staging file
    offset,       \* download_file's offset
    chunk_start,  \* chunked_download's chunk_start
    chunk_end,    \* chunked_download's chunk_end
    retries,      \* chunked_download's retries
    body,         \* bytes of the open 206 response not yet iterated
    respOpen,     \* responses obtained and not closed
    err,          \* the exception the call ended with, "none" otherwise
    cbLog,        \* bytes each write callback has received in this call
    destBefore,   \* history: content at dl_path when the call began
    resumedFrom,  \* history: staging size the call found when it resumed, -1 otherwise
    winLog,       \* history: ranges requested with retries = 0
    anyFail,      \* history: some response of this call was neither 206 nor 416
    partAtWin,    \* history: staging content when the current window was first requested
    at416,        \* history: state recorded when a 416 arrived
    onReturn,     \* history: staging content when chunked_download returned
    prevErr,      \* history: how the invocation's previous call ended
    hist          \* history: failed responses of the current window, windows that
                  \* succeeded on their last attempt, staging file seen at the call

VARIABLES
    up_op,        \* the upload operation in progress, "none" otherwise
    up_dedup,     \* its deduplication argument
    up_params,    \* the query parameters of its request
    tee,          \* the _TeeBufferedReader: _file's content and position, reads made
    tee_last,     \* history: the last read: ln given, ln passed on, chunk returned
    tee_cb,       \* the chunks each callback of the tee reader received
    ms_pc,        \* position of the _multipart_stream generator
    ms_metadata,  \* its metadata argument
    ms_boundary,  \* its boundary argument
    ms_stream,    \* the blocks its stream argument has yet to produce
    ms_f,         \* its local f, the block read last
    ms_out,       \* the fragments it has yielded
    ms_cb,        \* the blocks each of its read callbacks received
    ms_src        \* history: the blocks the stream held when the call began

uvars == <<up_op, up_dedup, up_params, tee, tee_last, tee_cb,
           ms_pc, ms_metadata, ms_boundary, ms_stream, ms_f, ms_out, ms_cb, ms_src>>

dvars == <<remote, dir, files, active, calls, pc, kwargs, dl_path, fh, offset,
           chunk_start, chunk_end, retries, body, respOpen, err, cbLog,
           destBefore, resumedFrom, winLog, anyFail, partAtWin, at416, onReturn,
           prevErr, hist>>

\* ------------------------------------------------------------ file system
ABSENT == <<"absent">>

\* mutant: the staging file is the destination itself
PartPathInPlace(dl) == dl

PartPath(dl) == dl \o PARTIAL_SUFFIX

AllPaths == DlNames \cup {PartPath(d) : d \in DlNames}

isfile(d, path) == d[path] # 0

\* content visible at a path
At(d, f, path) == IF isfile(d, path) THEN f[d[path]] ELSE ABSENT

getsize(d, f, path) == Len(f[d[path]])

ClosedHandle == [open |-> FALSE, ino |-> 0, mode |-> "", pos |-> 0]

LiveInodes(d, h) ==
    {d[x] : x \in {y \in AllPaths : d[y] # 0}}
        \cup {h[p].ino : p \in {q \in Procs : h[q].open}}

\* an inode lives as long as a path or an open handle refers to it
Collect(f, d, h) == [i \in (DOMAIN f) \cap LiveInodes(d, h) |-> f[i]]

NewInode(f) == CHOOSE i \in 1..(Cardinality(DOMAIN f) + 1) : i \notin DOMAIN f

Zeros(n) == [i \in 1..n |-> 0]

\* f.truncate(n)
Truncate(content, n) ==
    IF n <= Len(content) THEN SubSeq(content, 1, n)
    ELSE content \o Zeros(n - Len(content))

\* mutant: a write replaces what the file held
WriteContentReplaces(h, content, chunk) == chunk

\* f.write(chunk): mode 'ab' appends at the end of the file, mode 'wb' writes
\* at the handle's position
WriteContent(h, content, chunk) ==
    IF h.mode = "ab" THEN content \o chunk
    ELSE LET padded == IF h.pos > Len(content)
                         THEN content \o Zeros(h.pos - Len(content))
                         ELSE content
         IN  SubSeq(padded, 1, h.pos) \o chunk
                 \o SubSeq(padded, h.pos + Len(chunk) + 1, Len(padded))

WritePos(h, content, chunk) ==
    IF h.mode = "ab" THEN Len(content) + Len(chunk) ELSE h.pos + Len(chunk)

\* --------------------------------------------------------------- kwargs
KwGet(kw, key, default) == IF key \in DOMAIN kw THEN kw[key] ELSE default

\* the list a caller registers: MaxCallbacks callbacks
CallbackLists == {[i \in 1..MaxCallbacks |-> i]}

\* the lengths a caller declares for an object: none, the exact length, one
\* less, one more (an upper bound), 0 and 1
LengthArgs(obj) == {l \in 0..(MaxLen + 1) : l \in {0, 1, Len(obj) - 1, Len(obj), Len(obj) + 1}}

KwargsSet(obj) ==
    LET base == {[resume |-> r] : r \in BOOLEAN}
        withLen == base \cup
            {[resume |-> k.resume, length |-> l] : k \in base, l \in LengthArgs(obj)}
    IN  withLen \cup
            {[x \in (DOMAIN k) \cup {"write_callbacks"} |->
                 IF x = "write_callbacks" THEN c ELSE k[x]] :
                     k \in withLen, c \in CallbackLists}

\* ------------------------------------------------------- pure computations
\* mutant: download_file never sees the declared length
DfLengthIgnored(kw) == 0

\* download_file: length = kwargs.get('length', 0)
DfLength(kw) == KwGet(kw, "length", 0)

\* mutant: the resume argument is not looked at
DfResumeAlways(kw) == TRUE

\* download_file: resume = kwargs.get('resume', True)
DfResume(kw) == KwGet(kw, "resume", TRUE)

\* chunked_download: length = kwargs.get('length', 100 * 1024 ** 4)
CdLength(kw) == KwGet(kw, "length", DEFAULT_LENGTH)

\* write_callbacks = kwargs.get('write_callbacks', [])
WriteCallbacks(kw) == KwGet(kw, "write_callbacks", <<>>)

\* mutant: the safety margin is added instead of subtracted
TruncPosSignSlip(size) == size - 1 + FS_RW_CHUNK_SZ

\* mutant: exactly one read increment is cut off
TruncPosOneIncrement(size) == size - FS_RW_CHUNK_SZ

\* trunc_pos = os.path.getsize(part_path) - 1 - FS_RW_CHUNK_SZ
TruncPos(size) == size - 1 - FS_RW_CHUNK_SZ

\* f.truncate(trunc_pos if trunc_pos >= 0 else 0)
TruncArg(trunc_pos) == IF trunc_pos >= 0 THEN trunc_pos ELSE 0

\* mutant: the last window is not cut at the declared length
ChunkEndUnclipped(start, length) == start + CHUNK_SIZE - 1

\* chunk_end = chunk_start + CHUNK_SIZE - 1; if chunk_end >= length: length - 1
ChunkEnd(start, length) ==
    IF start + CHUNK_SIZE - 1 >= length THEN length - 1 ELSE start + CHUNK_SIZE - 1

\* mutant: the next window starts on the last byte of the previous one
NextChunkStartOverlap(start) == start + CHUNK_SIZE - 1

\* chunk_start += CHUNK_SIZE
NextChunkStart(start) == start + CHUNK_SIZE

\* f.tell()
Tell(h) == h.pos

\* the content server's answer to Range: bytes=start-end on an object
ServerBody(obj, start, end) == SubSeq(obj, start + 1, Min(end + 1, Len(obj)))

\* every callback of the list receives the chunk
FeedAll(log, chunk) == [i \in DOMAIN log |-> log[i] \o chunk]

\* mutant: only full blocks are replayed, a shorter last block is dropped
ReadBlocksDropTail(content) ==
    [i \in 1..(Len(content) \div FS_RW_CHUNK_SZ) |->
        SubSeq(content, (i - 1) * FS_RW_CHUNK_SZ + 1, i * FS_RW_CHUNK_SZ)]

\* iter(lambda: f.read(FS_RW_CHUNK_SZ), b''): the blocks of a file, in order
RECURSIVE ReadBlocks(_)
ReadBlocks(content) ==
    IF content = <<>> THEN <<>>
    ELSE LET n == Min(FS_RW_CHUNK_SZ, Len(content))
         IN  <<SubSeq(content, 1, n)>> \o ReadBlocks(SubSeq(content, n + 1, Len(content)))

\* for chunk in ...: for rcb in write_callbacks: rcb(chunk)
RECURSIVE Replay(_, _)
Replay(log, blocks) ==
    IF blocks = <<>> THEN log ELSE Replay(FeedAll(log, Head(blocks)), Tail(blocks))

\* open(path, mode): the inode the handle refers to
OpenInode(d, f, path) == IF isfile(d, path) THEN d[path] ELSE NewInode(f)

\* open(path, 'ab'): creates the file when absent, keeps its content otherwise
OpenAppendFiles(d, f, path) ==
    IF isfile(d, path) THEN f
    ELSE [i \in (DOMAIN f) \cup {NewInode(f)} |-> IF i \in DOMAIN f THEN f[i] ELSE <<>>]

\* open(path, 'wb'): creates the file when absent, empties it otherwise
OpenWriteFiles(d, f, path) ==
    [i \in (DOMAIN f) \cup {OpenInode(d, f, path)} |->
        IF i = OpenInode(d, f, path) THEN <<>> ELSE f[i]]

\* ----------------------------------------------------------- download_file
part_path(p) == PartPath(dl_path[p])

NoRange == [seen |-> FALSE, retries |-> 0, ino |-> 0, content |-> <<>>]

NoHist == [winFails |-> 0, fullWins |-> 0, hadStaging |-> FALSE]

\* a caller invokes download_file(node_id, basename, **kwargs)   (219-237)
Call(p) ==
    /\ p \in active
    /\ pc[p] \in {"idle", "done", "failed"}
    /\ calls < MaxCalls
    /\ calls' = calls + 1
    /\ \E dl \in DlNames, kw \in KwargsSet(remote) :
        /\ dl_path' = [dl_path EXCEPT ![p] = dl]
        /\ kwargs' = [kwargs EXCEPT ![p] = kw]
        /\ destBefore' = [destBefore EXCEPT ![p] = At(dir, files, dl)]
        /\ cbLog' = [cbLog EXCEPT ![p] = [i \in 1..Len(WriteCallbacks(kw)) |-> <<>>]]
    /\ offset' = [offset EXCEPT ![p] = 0]
    /\ fh' = [fh EXCEPT ![p] = ClosedHandle]
    /\ files' = Collect(files, dir, fh')
    /\ respOpen' = [respOpen EXCEPT ![p] = 0]
    /\ err' = [err EXCEPT ![p] = "none"]
    /\ chunk_start' = [chunk_start EXCEPT ![p] = 0]
    /\ chunk_end' = [chunk_end EXCEPT ![p] = 0]
    /\ retries' = [retries EXCEPT ![p] = 0]
    /\ body' = [body EXCEPT ![p] = <<>>]
    /\ resumedFrom' = [resumedFrom EXCEPT ![p] = -1]
    /\ winLog' = [winLog EXCEPT ![p] = <<>>]
    /\ anyFail' = [anyFail EXCEPT ![p] = FALSE]
    /\ partAtWin' = [partAtWin EXCEPT ![p] = ABSENT]
    /\ at416' = [at416 EXCEPT ![p] = NoRange]
    /\ onReturn' = [onReturn EXCEPT ![p] = ABSENT]
    /\ prevErr' = [prevErr EXCEPT ![p] = err[p]]
    /\ hist' = [hist EXCEPT ![p] = [NoHist EXCEPT !.hadStaging =
                                       isfile(dir, PartPath(dl_path'[p]))]]
    /\ pc' = [pc EXCEPT ![p] = "df_start"]
    /\ UNCHANGED <<remote, dir, active>>

\* if resume and os.path.isfile(part_path)   (239)
DfCheckResume(p) ==
    /\ pc[p] = "df_start"
    /\ IF DfResume(kwargs[p]) /\ isfile(dir, part_path(p))
       THEN /\ pc' = [pc EXCEPT ![p] = "df_trunc"]
            /\ resumedFrom' = [resumedFrom EXCEPT ![p] = getsize(dir, files, part_path(p))]
       ELSE /\ pc' = [pc EXCEPT ![p] = "df_open_wb"]
            /\ UNCHANGED resumedFrom
    /\ UNCHANGED <<remote, dir, files, active, calls, kwargs, dl_path, fh, offset,
                   chunk_start, chunk_end, retries, body, respOpen, err, cbLog,
                   destBefore, winLog, anyFail, partAtWin, at416,
                   onReturn, prevErr, hist>>

\* with open(part_path, 'ab') as f: f.truncate(...)   (240-242)
DfTruncate(p) ==
    /\ pc[p] = "df_trunc"
    /\ LET f1 == OpenAppendFiles(dir, files, part_path(p))
           ino == OpenInode(dir, files, part_path(p))
           d1 == [dir EXCEPT ![part_path(p)] = ino]
           trunc_pos == TruncPos(Len(f1[ino]))
       IN  /\ dir' = d1
           /\ files' = [f1 EXCEPT ![ino] = Truncate(f1[ino], TruncArg(trunc_pos))]
    /\ pc' = [pc EXCEPT ![p] = "df_replay"]
    /\ UNCHANGED <<remote, active, calls, kwargs, dl_path, fh, offset,
                   chunk_start, chunk_end, retries, body, respOpen, err, cbLog,
                   destBefore, resumedFrom, winLog, anyFail, partAtWin, at416,
                   onReturn, prevErr, hist>>

\* write_callbacks = kwargs.get('write_callbacks'); replay of the staging file (244-249)
DfReplay(p) ==
    /\ pc[p] = "df_replay"
    /\ IF "write_callbacks" \notin DOMAIN kwargs[p] \/ WriteCallbacks(kwargs[p]) = <<>>
       THEN /\ pc' = [pc EXCEPT ![p] = "df_open_ab"]
            /\ UNCHANGED <<cbLog, err>>
       ELSE IF isfile(dir, part_path(p))
       THEN /\ cbLog' = [cbLog EXCEPT ![p] =
                            Replay(cbLog[p], ReadBlocks(files[dir[part_path(p)]]))]
            /\ pc' = [pc EXCEPT ![p] = "df_open_ab"]
            /\ UNCHANGED err
       ELSE /\ pc' = [pc EXCEPT ![p] = "failed"]
            /\ err' = [err EXCEPT ![p] = "OSError"]
            /\ UNCHANGED cbLog
    /\ UNCHANGED <<remote, dir, files, active, calls, kwargs, dl_path, fh, offset,
                   chunk_start, chunk_end, retries, body, respOpen,
                   destBefore, resumedFrom, winLog, anyFail, partAtWin, at416,
                   onReturn, prevErr, hist>>

\* f = open(part_path, 'ab'); offset = f.tell()   (251, 254)
DfOpenAppend(p) ==
    /\ pc[p] = "df_open_ab"
    /\ LET f1 == OpenAppendFiles(dir, files, part_path(p))
           ino == OpenInode(dir, files, part_path(p))
           h == [open |-> TRUE, ino |-> ino, mode |-> "ab", pos |-> Len(f1[ino])]
       IN  /\ files' = f1
           /\ dir' = [dir EXCEPT ![part_path(p)] = ino]
           /\ fh' = [fh EXCEPT ![p] = h]
           /\ offset' = [offset EXCEPT ![p] = Tell(h)]
    /\ pc' = [pc EXCEPT ![p] = "cd_enter"]
    /\ UNCHANGED <<remote, active, calls, kwargs, dl_path,
                   chunk_start, chunk_end, retries, body, respOpen, err, cbLog,
                   destBefore, resumedFrom, winLog, anyFail, partAtWin, at416,
                   onReturn, prevErr, hist>>

\* f = open(part_path, 'wb'); offset = f.tell()   (253, 254)
DfOpenWrite(p) ==
    /\ pc[p] = "df_open_wb"
    /\ LET ino == OpenInode(dir, files, part_path(p))
           h == [open |-> TRUE, ino |-> ino, mode |-> "wb", pos |-> 0]
       IN  /\ files' = OpenWriteFiles(dir, files, part_path(p))
           /\ dir' = [dir EXCEPT ![part_path(p)] = ino]
           /\ fh' = [fh EXCEPT ![p] = h]
           /\ offset' = [offset EXCEPT ![p] = Tell(h)]
    /\ pc' = [pc EXCEPT ![p] = "cd_enter"]
    /\ UNCHANGED <<remote, active, calls, kwargs, dl_path,
                   chunk_start, chunk_end, retries, body, respOpen, err, cbLog,
                   destBefore, resumedFrom, winLog, anyFail, partAtWin, at416,
                   onReturn, prevErr, hist>>

\* -------------------------------------------------------- chunked_download
\* self.chunked_download(node_id, f, offset=offset, **kwargs)   (256, 275-282)
CdEnter(p) ==
    /\ pc[p] = "cd_enter"
    /\ chunk_start' = [chunk_start EXCEPT ![p] = offset[p]]
    /\ retries' = [retries EXCEPT ![p] = 0]
    /\ pc' = [pc EXCEPT ![p] = "cd_loop"]
    /\ UNCHANGED <<remote, dir, files, active, calls, kwargs, dl_path, fh, offset,
                   chunk_end, body, respOpen, err, cbLog,
                   destBefore, resumedFrom, winLog, anyFail, partAtWin, at416,
                   onReturn, prevErr, hist>>

\* while chunk_start < length: chunk_end = ...; the retry ceiling; the request
\* is sent   (283-293)
CdLoop(p) ==
    /\ pc[p] = "cd_loop"
    /\ LET length == CdLength(kwargs[p]) IN
       IF chunk_start[p] < length
       THEN /\ chunk_end' = [chunk_end EXCEPT ![p] = ChunkEnd(chunk_start[p], length)]
            /\ IF retries[p] >= CHUNK_MAX_RETRY
               THEN /\ pc' = [pc EXCEPT ![p] = "failed"]
                    /\ err' = [err EXCEPT ![p] = "FAILED_SUBREQUEST"]
                    /\ UNCHANGED <<winLog, partAtWin, onReturn>>
               ELSE /\ pc' = [pc EXCEPT ![p] = "cd_get"]
                    /\ winLog' = [winLog EXCEPT ![p] =
                           IF retries[p] = 0
                           THEN Append(@, <<chunk_start[p], ChunkEnd(chunk_start[p], length)>>)
                           ELSE @]
                    /\ partAtWin' = [partAtWin EXCEPT ![p] =
                           IF retries[p] = 0 THEN files[fh[p].ino] ELSE @]
                    /\ UNCHANGED <<err, onReturn>>
       ELSE /\ pc' = [pc EXCEPT ![p] = "df_after"]
            /\ onReturn' = [onReturn EXCEPT ![p] = files[fh[p].ino]]
            /\ UNCHANGED <<chunk_end, err, winLog, partAtWin>>
    /\ UNCHANGED <<remote, dir, files, active, calls, kwargs, dl_path, fh, offset,
                   chunk_start, retries, body, respOpen, cbLog,
                   destBefore, resumedFrom, anyFail, at416, prevErr, hist>>

\* BOReq.get raises a connection error, which catch_conn_exception re-raises (268, 291)
GetConnError(p) ==
    /\ pc[p] = "cd_get"
    /\ pc' = [pc EXCEPT ![p] = "failed"]
    /\ err' = [err EXCEPT ![p] = "CONN_EXCEPTION"]
    /\ UNCHANGED <<remote, dir, files, active, calls, kwargs, dl_path, fh, offset,
                   chunk_start, chunk_end, retries, body, respOpen, cbLog,
                   destBefore, resumedFrom, winLog, anyFail, partAtWin, at416,
                   onReturn, prevErr, hist>>

\* mutant: the status is checked against ok_codes first, so a 416 counts as a
\* failed attempt of the window
Get416Retry(p) ==
    /\ pc[p] = "cd_get"
    /\ chunk_start[p] >= Len(remote)
    /\ at416' = [at416 EXCEPT ![p] = [seen |-> TRUE, retries |-> retries[p],
                                      ino |-> fh[p].ino, content |-> files[fh[p].ino]]]
    /\ retries' = [retries EXCEPT ![p] = @ + 1]
    /\ pc' = [pc EXCEPT ![p] = "cd_loop"]
    /\ UNCHANGED <<remote, dir, files, active, calls, kwargs, dl_path, fh, offset,
                   chunk_start, chunk_end, body, respOpen, err, cbLog,
                   destBefore, resumedFrom, winLog, anyFail, partAtWin, onReturn,
                   prevErr, hist>>

\* r.status_code == http.REQUESTED_RANGE_NOT_SATISFIABLE: break   (297-299)
\* the server sends 416 exactly when the range starts at or past the object's end
Get416(p) ==
    /\ pc[p] = "cd_get"
    /\ chunk_start[p] >= Len(remote)
    /\ respOpen' = [respOpen EXCEPT ![p] = @ + 1]
    /\ at416' = [at416 EXCEPT ![p] = [seen |-> TRUE, retries |-> retries[p],
                                      ino |-> fh[p].ino, content |-> files[fh[p].ino]]]
    /\ onReturn' = [onReturn EXCEPT ![p] = files[fh[p].ino]]
    /\ pc' = [pc EXCEPT ![p] = "df_after"]
    /\ UNCHANGED <<remote, dir, files, active, calls, kwargs, dl_path, fh, offset,
                   chunk_start, chunk_end, retries, body, err, cbLog,
                   destBefore, resumedFrom, winLog, anyFail, partAtWin, prevErr, hist>>

\* mutant: the body of a failed response is written to the sink before the retry
GetOtherWritesBody(p) ==
    /\ pc[p] = "cd_get"
    /\ files' = [files EXCEPT ![fh[p].ino] = WriteContent(fh[p], @, <<0>>)]
    /\ fh' = [fh EXCEPT ![p].pos = WritePos(fh[p], files[fh[p].ino], <<0>>)]
    /\ retries' = [retries EXCEPT ![p] = @ + 1]
    /\ anyFail' = [anyFail EXCEPT ![p] = TRUE]
    /\ hist' = [hist EXCEPT ![p].winFails = @ + 1]
    /\ pc' = [pc EXCEPT ![p] = "cd_loop"]
    /\ UNCHANGED <<remote, dir, active, calls, kwargs, dl_path, offset,
                   chunk_start, chunk_end, body, respOpen, err, cbLog,
                   destBefore, resumedFrom, winLog, partAtWin, at416, onReturn,
                   prevErr>>

\* r.status_code not in ok_codes: r.close(); retries += 1; continue   (300-304)
GetOther(p) ==
    /\ pc[p] = "cd_get"
    /\ retries' = [retries EXCEPT ![p] = @ + 1]
    /\ anyFail' = [anyFail EXCEPT ![p] = TRUE]
    /\ hist' = [hist EXCEPT ![p].winFails = @ + 1]
    /\ pc' = [pc EXCEPT ![p] = "cd_loop"]
    /\ UNCHANGED <<remote, dir, files, active, calls, kwargs, dl_path, fh, offset,
                   chunk_start, chunk_end, body, respOpen, err, cbLog,
                   destBefore, resumedFrom, winLog, partAtWin, at416,
                   onReturn, prevErr>>

\* 206: the response carries the bytes of the range that the object has   (306)
Get206(p) ==
    /\ pc[p] = "cd_get"
    /\ chunk_start[p] < Len(remote)
    /\ body' = [body EXCEPT ![p] = ServerBody(remote, chunk_start[p], chunk_end[p])]
    /\ respOpen' = [respOpen EXCEPT ![p] = @ + 1]
    /\ pc' = [pc EXCEPT ![p] = "cd_stream"]
    /\ UNCHANGED <<remote, dir, files, active, calls, kwargs, dl_path, fh, offset,
                   chunk_start, chunk_end, retries, err, cbLog,
                   destBefore, resumedFrom, winLog, anyFail, partAtWin, at416,
                   onReturn, prevErr, hist>>

\* one turn of for chunk in r.iter_content(chunk_size=FS_RW_CHUNK_SZ): write,
\* flush, callbacks   (308-314)
StreamChunk(p) ==
    /\ pc[p] = "cd_stream"
    /\ body[p] # <<>>
    /\ \E n \in 1..Min(FS_RW_CHUNK_SZ, Len(body[p])) :
        LET chunk == SubSeq(body[p], 1, n)
            h == fh[p]
        IN  /\ files' = [files EXCEPT ![h.ino] = WriteContent(h, @, chunk)]
            /\ fh' = [fh EXCEPT ![p].pos = WritePos(h, files[h.ino], chunk)]
            /\ cbLog' = [cbLog EXCEPT ![p] = FeedAll(@, chunk)]
            /\ body' = [body EXCEPT ![p] = SubSeq(@, n + 1, Len(@))]
    /\ UNCHANGED <<remote, dir, active, calls, pc, kwargs, dl_path, offset,
                   chunk_start, chunk_end, retries, respOpen, err,
                   destBefore, resumedFrom, winLog, anyFail, partAtWin, at416,
                   onReturn, prevErr, hist>>

\* iter_content raises: finally r.close(), then the error leaves the call (315-316)
StreamError(p) ==
    /\ pc[p] = "cd_stream"
    /\ respOpen' = [respOpen EXCEPT ![p] = @ - 1]
    /\ body' = [body EXCEPT ![p] = <<>>]
    /\ pc' = [pc EXCEPT ![p] = "failed"]
    /\ err' = [err EXCEPT ![p] = "CONN_EXCEPTION"]
    /\ UNCHANGED <<remote, dir, files, active, calls, kwargs, dl_path, fh, offset,
                   chunk_start, chunk_end, retries, cbLog,
                   destBefore, resumedFrom, winLog, anyFail, partAtWin, at416,
                   onReturn, prevErr, hist>>

\* the window is done: the next one is counted from no failure, and the window
\* is remembered when it succeeded on its last attempt
WindowDone(h) ==
    [h EXCEPT !.winFails = 0,
              !.fullWins = IF h.winFails = CHUNK_MAX_RETRY - 1 THEN @ + 1 ELSE @]

\* mutant: the retry counter is kept from one window to the next
StreamEndKeepsRetries(p) ==
    /\ pc[p] = "cd_stream"
    /\ body[p] = <<>>
    /\ respOpen' = [respOpen EXCEPT ![p] = @ - 1]
    /\ chunk_start' = [chunk_start EXCEPT ![p] = NextChunkStart(@)]
    /\ hist' = [hist EXCEPT ![p] = WindowDone(@)]
    /\ pc' = [pc EXCEPT ![p] = "cd_loop"]
    /\ UNCHANGED <<remote, dir, files, active, calls, kwargs, dl_path, fh, offset,
                   chunk_end, retries, body, err, cbLog,
                   destBefore, resumedFrom, winLog, anyFail, partAtWin, at416,
                   onReturn, prevErr>>

\* mutant: the drained response is left open
StreamEndNoClose(p) ==
    /\ pc[p] = "cd_stream"
    /\ body[p] = <<>>
    /\ chunk_start' = [chunk_start EXCEPT ![p] = NextChunkStart(@)]
    /\ retries' = [retries EXCEPT ![p] = 0]
    /\ hist' = [hist EXCEPT ![p] = WindowDone(@)]
    /\ pc' = [pc EXCEPT ![p] = "cd_loop"]
    /\ UNCHANGED <<remote, dir, files, active, calls, kwargs, dl_path, fh, offset,
                   chunk_end, body, respOpen, err, cbLog,
                   destBefore, resumedFrom, winLog, anyFail, partAtWin, at416,
                   onReturn, prevErr>>

\* the body is exhausted: r.close(); chunk_start += CHUNK_SIZE; retries = 0 (315-319)
StreamEnd(p) ==
    /\ pc[p] = "cd_stream"
    /\ body[p] = <<>>
    /\ respOpen' = [respOpen EXCEPT ![p] = @ - 1]
    /\ chunk_start' = [chunk_start EXCEPT ![p] = NextChunkStart(@)]
    /\ retries' = [retries EXCEPT ![p] = 0]
    /\ hist' = [hist EXCEPT ![p] = WindowDone(@)]
    /\ pc' = [pc EXCEPT ![p] = "cd_loop"]
    /\ UNCHANGED <<remote, dir, files, active, calls, kwargs, dl_path, fh, offset,
                   chunk_end, body, err, cbLog,
                   destBefore, resumedFrom, winLog, anyFail, partAtWin, at416,
                   onReturn, prevErr>>

\* ------------------------------------------------- download_file, the finish
\* pos = f.tell(); f.close(); the incomplete-result check   (257-261)
DfAfter(p) ==
    /\ pc[p] = "df_after"
    /\ fh' = [fh EXCEPT ![p] = ClosedHandle]
    /\ files' = Collect(files, dir, fh')
    /\ LET pos == Tell(fh[p])
           length == DfLength(kwargs[p])
       IN  IF length > 0 /\ pos < length
           THEN /\ pc' = [pc EXCEPT ![p] = "failed"]
                /\ err' = [err EXCEPT ![p] = "INCOMPLETE_RESULT"]
           ELSE /\ pc' = [pc EXCEPT ![p] = "df_remove"]
                /\ UNCHANGED err
    /\ UNCHANGED <<remote, dir, active, calls, kwargs, dl_path, offset,
                   chunk_start, chunk_end, retries, body, respOpen, cbLog,
                   destBefore, resumedFrom, winLog, anyFail, partAtWin, at416,
                   onReturn, prevErr, hist>>

\* if os.path.isfile(dl_path): os.remove(dl_path)   (263-265)
DfRemove(p) ==
    /\ pc[p] = "df_remove"
    /\ dir' = IF isfile(dir, dl_path[p]) THEN [dir EXCEPT ![dl_path[p]] = 0] ELSE dir
    /\ files' = Collect(files, dir', fh)
    /\ pc' = [pc EXCEPT ![p] = "df_rename"]
    /\ UNCHANGED <<remote, active, calls, kwargs, dl_path, fh, offset,
                   chunk_start, chunk_end, retries, body, respOpen, err, cbLog,
                   destBefore, resumedFrom, winLog, anyFail, partAtWin, at416,
                   onReturn, prevErr, hist>>

\* os.rename(part_path, dl_path)   (266)
DfRename(p) ==
    /\ pc[p] = "df_rename"
    /\ IF isfile(dir, part_path(p))
       THEN /\ dir' = [dir EXCEPT ![dl_path[p]] = dir[part_path(p)],
                                  ![part_path(p)] = 0]
            /\ pc' = [pc EXCEPT ![p] = "done"]
            /\ UNCHANGED err
       ELSE /\ pc' = [pc EXCEPT ![p] = "failed"]
            /\ err' = [err EXCEPT ![p] = "OSError"]
            /\ UNCHANGED dir
    /\ files' = Collect(files, dir', fh)
    /\ UNCHANGED <<remote, active, calls, kwargs, dl_path, fh, offset,
                   chunk_start, chunk_end, retries, body, respOpen, cbLog,
                   destBefore, resumedFrom, winLog, anyFail, partAtWin, at416,
                   onReturn, prevErr, hist>>

\* ------------------------------------------------------ _TeeBufferedReader
\* mutant: ln is handed to the wrapped file as the caller gave it
TeeReadLenPassThrough(ln) == ln

\* ln = ln if ln in (0, -1) else FS_RW_CHUNK_SZ   (44)
TeeReadLen(ln) == IF ln \in {0, -1} THEN ln ELSE FS_RW_CHUNK_SZ

\* self._file.read(ln) of a buffered reader: everything left when ln is
\* negative, at most ln bytes otherwise   (45)
FileRead(content, pos, ln) ==
    IF ln < 0 THEN SubSeq(content, pos + 1, Len(content))
    ELSE SubSeq(content, pos + 1, Min(pos + ln, Len(content)))

\* for callback in self._callbacks or []: callback(chunk)   (46-47)
CallAll(logs, chunk) == [i \in DOMAIN logs |-> Append(logs[i], chunk)]

NoParams == [x \in {} |-> ""]

SuppressDedup == [suppress |-> "deduplication"]

\* params = {'suppress': 'deduplication'}; if deduplication and
\* os.path.getsize(file_name) > 0: params = {}   (138-140)
UploadFileParams(deduplication, size) ==
    IF deduplication /\ size > 0 THEN NoParams ELSE SuppressDedup

\* params = {} if deduplication else {'suppress': 'deduplication'}   (166)
UploadStreamParams(deduplication) ==
    IF deduplication THEN NoParams ELSE SuppressDedup

EmptyDict == [x \in {} |-> ""]

\* metadata = {'kind': 'FILE', 'name': file_name}; if parent: parents   (168-170)
UploadMetadata(parent) ==
    IF parent THEN [kind |-> "FILE", name |-> "n", parents |-> "p"]
    ELSE [kind |-> "FILE", name |-> "n"]

LocalFiles == {[i \in 1..n |-> i] : n \in 0..MaxFile}

ReadArgs == {-2, -1, 0, 1, FS_RW_CHUNK_SZ, FS_RW_CHUNK_SZ + 1}

NoRead == [called |-> FALSE, ln |-> 0, req |-> 0, ret |-> <<>>, from |-> 0]

ClosedTee == [content |-> <<>>, pos |-> 0, reads |-> 0]

\* upload_file(file_name, parent, read_callbacks, deduplication) up to the
\* request: params, f = _tee_open(file_name, callbacks=read_callbacks)  (136-147)
UploadFile ==
    /\ up_op = "none"
    /\ \E content \in LocalFiles, dedup \in BOOLEAN, ncb \in 0..MaxCallbacks :
        /\ up_dedup' = dedup
        /\ up_params' = UploadFileParams(dedup, Len(content))
        /\ tee' = [content |-> content, pos |-> 0, reads |-> 0]
        /\ tee_cb' = [i \in 1..ncb |-> <<>>]
    /\ tee_last' = NoRead
    /\ up_op' = "upload_file"
    /\ UNCHANGED <<ms_pc, ms_metadata, ms_boundary, ms_stream, ms_f, ms_out, ms_cb,
                   ms_src>>

\* the encoder that sends the request calls f.read(ln)   (43-48)
TeeRead ==
    /\ up_op = "upload_file"
    /\ tee.reads < MaxReads
    /\ \E ln \in ReadArgs :
        LET req == TeeReadLen(ln)
            chunk == FileRead(tee.content, tee.pos, req)
        IN  /\ tee' = [tee EXCEPT !.pos = @ + Len(chunk), !.reads = @ + 1]
            /\ tee_cb' = CallAll(tee_cb, chunk)
            /\ tee_last' = [called |-> TRUE, ln |-> ln, req |-> req, ret |-> chunk,
                            from |-> tee.pos]
    /\ UNCHANGED <<up_op, up_dedup, up_params, ms_pc, ms_metadata, ms_boundary,
                   ms_stream, ms_f, ms_out, ms_cb, ms_src>>

\* the request of upload_file or upload_stream is answered and the call returns
\* (160-162, 182-184, 215-217)
UploadReturn ==
    /\ \/ up_op = "upload_file"
       \/ up_op \in {"upload_stream", "overwrite_stream"} /\ ms_pc = "end"
    /\ up_op' = "none"
    /\ up_dedup' = FALSE
    /\ up_params' = NoParams
    /\ tee' = ClosedTee
    /\ tee_last' = NoRead
    /\ tee_cb' = <<>>
    /\ ms_pc' = "idle"
    /\ ms_metadata' = EmptyDict
    /\ ms_boundary' = ""
    /\ ms_stream' = <<>>
    /\ ms_f' = <<>>
    /\ ms_out' = <<>>
    /\ ms_cb' = <<>>
    /\ ms_src' = <<>>

\* -------------------------------------------------------- _multipart_stream
\* the fragments, as sequences of tokens; a content byte is one token
JsonDumps(metadata) ==
    IF "parents" \in DOMAIN metadata THEN "{kind: FILE, name: n, parents: [p]}"
    ELSE "{kind: FILE, name: n}"

\* '--%s\r\nContent-Disposition: form-data; name="metadata"\r\n\r\n' % boundary
\*     + '%s\r\n' % json.dumps(metadata)   (68-70)
MetadataPart(boundary, metadata) ==
    <<"--", boundary, "CRLF", "Content-Disposition: form-data; name=metadata",
      "CRLF", "CRLF", JsonDumps(metadata), "CRLF">>

\* '--%s\r\n' % boundary + Content-Disposition ... + Content-Type ... (71-73)
ContentHeader(boundary) ==
    <<"--", boundary, "CRLF",
      "Content-Disposition: form-data; name=content; filename=foo", "CRLF",
      "Content-Type: application/octet-stream", "CRLF", "CRLF">>

\* '\r\n--%s--\r\n' % boundary + 'multipart/form-data; boundary=%s' % boundary (82-83)
ClosingPart(boundary) ==
    <<"CRLF", "--", boundary, "--", "CRLF", "multipart/form-data; boundary=", boundary>>

\* stream.read(FS_RW_CHUNK_SZ): the next block of the stream, empty at its end (75)
StreamRead(blocks) == IF blocks = <<>> THEN <<>> ELSE Head(blocks)

StreamRest(blocks) == IF blocks = <<>> THEN <<>> ELSE Tail(blocks)

\* the streams: every way of producing bytes "1", "2", ... in blocks of at most
\* FS_RW_CHUNK_SZ bytes, an empty block being an empty read
RECURSIVE MkBlocks(_, _)
MkBlocks(lens, first) ==
    IF lens = <<>> THEN <<>>
    ELSE <<[i \in 1..Head(lens) |-> ToString(first + i - 1)]>>
             \o MkBlocks(Tail(lens), first + Head(lens))

BlockLens == UNION {[1..n -> 0..FS_RW_CHUNK_SZ] : n \in 0..MaxBlocks}

StreamSources == {MkBlocks(lens, 1) : lens \in BlockLens}

Boundaries == {"u1", "u2"}

\* upload_stream(stream, file_name, parent, read_callbacks, deduplication) up
\* to the request, whose body is _multipart_stream(...)   (164-180)
UploadStream ==
    /\ up_op = "none"
    /\ \E dedup \in BOOLEAN, parent \in BOOLEAN :
        /\ up_dedup' = dedup
        /\ up_params' = UploadStreamParams(dedup)
        /\ ms_metadata' = UploadMetadata(parent)
    /\ \E src \in StreamSources, b \in Boundaries, ncb \in 0..MaxCallbacks :
        /\ ms_stream' = src
        /\ ms_src' = src
        /\ ms_boundary' = b
        /\ ms_cb' = [i \in 1..ncb |-> <<>>]
    /\ ms_pc' = "start"
    /\ ms_f' = <<>>
    /\ ms_out' = <<>>
    /\ up_op' = "upload_stream"
    /\ UNCHANGED <<tee, tee_last, tee_cb>>

\* overwrite_stream(stream, node_id, read_callbacks): metadata = {}   (205-213)
OverwriteStream ==
    /\ up_op = "none"
    /\ up_dedup' = FALSE
    /\ up_params' = NoParams
    /\ ms_metadata' = EmptyDict
    /\ \E src \in StreamSources, b \in Boundaries, ncb \in 0..MaxCallbacks :
        /\ ms_stream' = src
        /\ ms_src' = src
        /\ ms_boundary' = b
        /\ ms_cb' = [i \in 1..ncb |-> <<>>]
    /\ ms_pc' = "start"
    /\ ms_f' = <<>>
    /\ ms_out' = <<>>
    /\ up_op' = "overwrite_stream"
    /\ UNCHANGED <<tee, tee_last, tee_cb>>

\* the generator is started: if metadata: yield the metadata part; else run on
\* to the yield of the content header   (67-73)
MsStart ==
    /\ ms_pc = "start"
    /\ IF ms_metadata # EmptyDict
       THEN /\ ms_out' = Append(ms_out, MetadataPart(ms_boundary, ms_metadata))
            /\ ms_pc' = "after_metadata"
       ELSE /\ ms_out' = Append(ms_out, ContentHeader(ms_boundary))
            /\ ms_pc' = "loop"
    /\ UNCHANGED <<up_op, up_dedup, up_params, tee, tee_last, tee_cb,
                   ms_metadata, ms_boundary, ms_stream, ms_f, ms_cb, ms_src>>

\* resumed after the metadata part: yield the content header   (71-73)
MsHeader ==
    /\ ms_pc = "after_metadata"
    /\ ms_out' = Append(ms_out, ContentHeader(ms_boundary))
    /\ ms_pc' = "loop"
    /\ UNCHANGED <<up_op, up_dedup, up_params, tee, tee_last, tee_cb,
                   ms_metadata, ms_boundary, ms_stream, ms_f, ms_cb, ms_src>>

\* mutant: a block shorter than FS_RW_CHUNK_SZ is taken for the end of the stream
MsReadStopsOnShort ==
    /\ ms_pc = "loop"
    /\ ms_f' = StreamRead(ms_stream)
    /\ ms_stream' = StreamRest(ms_stream)
    /\ IF Len(StreamRead(ms_stream)) = FS_RW_CHUNK_SZ
       THEN /\ ms_cb' = CallAll(ms_cb, StreamRead(ms_stream))
            /\ ms_pc' = "yield"
            /\ UNCHANGED ms_out
       ELSE /\ ms_out' = Append(ms_out, ClosingPart(ms_boundary))
            /\ ms_pc' = "closed"
            /\ UNCHANGED ms_cb
    /\ UNCHANGED <<up_op, up_dedup, up_params, tee, tee_last, tee_cb,
                   ms_metadata, ms_boundary, ms_src>>

\* f = stream.read(FS_RW_CHUNK_SZ); if f: the callbacks, up to yield f; else:
\* break and yield the closing part   (74-83)
MsRead ==
    /\ ms_pc = "loop"
    /\ ms_f' = StreamRead(ms_stream)
    /\ ms_stream' = StreamRest(ms_stream)
    /\ IF StreamRead(ms_stream) # <<>>
       THEN /\ ms_cb' = CallAll(ms_cb, StreamRead(ms_stream))
            /\ ms_pc' = "yield"
            /\ UNCHANGED ms_out
       ELSE /\ ms_out' = Append(ms_out, ClosingPart(ms_boundary))
            /\ ms_pc' = "closed"
            /\ UNCHANGED ms_cb
    /\ UNCHANGED <<up_op, up_dedup, up_params, tee, tee_last, tee_cb,
                   ms_metadata, ms_boundary, ms_src>>

\* yield f   (79)
MsYield ==
    /\ ms_pc = "yield"
    /\ ms_out' = Append(ms_out, ms_f)
    /\ ms_pc' = "loop"
    /\ UNCHANGED <<up_op, up_dedup, up_params, tee, tee_last, tee_cb,
                   ms_metadata, ms_boundary, ms_stream, ms_f, ms_cb, ms_src>>

\* resumed after the closing part: the generator is exhausted   (83)
MsEnd ==
    /\ ms_pc = "closed"
    /\ ms_pc' = "end"
    /\ UNCHANGED <<up_op, up_dedup, up_params, tee, tee_last, tee_cb,
                   ms_metadata, ms_boundary, ms_stream, ms_f, ms_out, ms_cb, ms_src>>

\* ------------------------------------------------------------ specification
OldFile == <<0, 0, 0>>

RemoteObjects == {[i \in 1..n |-> i] : n \in 0..MaxLen}

DInit(objects, olds) ==
    /\ remote \in objects
    /\ \E old \in olds :
        /\ dir = [x \in AllPaths |-> IF old /\ x \in DlNames THEN 1 ELSE 0]
        /\ files = IF old THEN (1 :> OldFile) ELSE <<>>
    /\ calls = 0
    /\ pc = [p \in Procs |-> "idle"]
    /\ kwargs = [p \in Procs |-> [resume |-> TRUE]]
    /\ dl_path = [p \in Procs |-> "file"]
    /\ fh = [p \in Procs |-> ClosedHandle]
    /\ offset = [p \in Procs |-> 0]
    /\ chunk_start = [p \in Procs |-> 0]
    /\ chunk_end = [p \in Procs |-> 0]
    /\ retries = [p \in Procs |-> 0]
    /\ body = [p \in Procs |-> <<>>]
    /\ respOpen = [p \in Procs |-> 0]
    /\ err = [p \in Procs |-> "none"]
    /\ cbLog = [p \in Procs |-> <<>>]
    /\ destBefore = [p \in Procs |-> ABSENT]
    /\ resumedFrom = [p \in Procs |-> -1]
    /\ winLog = [p \in Procs |-> <<>>]
    /\ anyFail = [p \in Procs |-> FALSE]
    /\ partAtWin = [p \in Procs |-> ABSENT]
    /\ at416 = [p \in Procs |-> NoRange]
    /\ onReturn = [p \in Procs |-> ABSENT]
    /\ prevErr = [p \in Procs |-> "none"]
    /\ hist = [p \in Procs |-> NoHist]

UInit ==
    /\ up_op = "none"
    /\ up_dedup = FALSE
    /\ up_params = NoParams
    /\ tee = ClosedTee
    /\ tee_last = NoRead
    /\ tee_cb = <<>>
    /\ ms_pc = "idle"
    /\ ms_metadata = EmptyDict
    /\ ms_boundary = ""
    /\ ms_stream = <<>>
    /\ ms_f = <<>>
    /\ ms_out = <<>>
    /\ ms_cb = <<>>
    /\ ms_src = <<>>

\* one invocation at a time calls download_file, MaxCalls times
Init ==
    /\ DInit(RemoteObjects, BOOLEAN)
    /\ active = {"t1"}
    /\ UInit

DNext ==
    \/ \E p \in active : Call(p) /\ UNCHANGED uvars
    \/ \E p \in active : DfCheckResume(p) /\ UNCHANGED uvars
    \/ \E p \in active : DfTruncate(p) /\ UNCHANGED uvars
    \/ \E p \in active : DfReplay(p) /\ UNCHANGED uvars
    \/ \E p \in active : DfOpenAppend(p) /\ UNCHANGED uvars
    \/ \E p \in active : DfOpenWrite(p) /\ UNCHANGED uvars
    \/ \E p \in active : CdEnter(p) /\ UNCHANGED uvars
    \/ \E p \in active : CdLoop(p) /\ UNCHANGED uvars
    \/ \E p \in active : GetConnError(p) /\ UNCHANGED uvars
    \/ \E p \in active : Get416(p) /\ UNCHANGED uvars
    \/ \E p \in active : GetOther(p) /\ UNCHANGED uvars
    \/ \E p \in active : Get206(p) /\ UNCHANGED uvars
    \/ \E p \in active : StreamChunk(p) /\ UNCHANGED uvars
    \/ \E p \in active : StreamError(p) /\ UNCHANGED uvars
    \/ \E p \in active : StreamEnd(p) /\ UNCHANGED uvars
    \/ \E p \in active : DfAfter(p) /\ UNCHANGED uvars
    \/ \E p \in active : DfRemove(p) /\ UNCHANGED uvars
    \/ \E p \in active : DfRename(p) /\ UNCHANGED uvars

Next == DNext

vars == <<dvars, uvars>>

Spec == Init /\ [][Next]_vars

\* the uploads: upload_file with its tee reader, upload_stream and
\* overwrite_stream with the multipart generator
UploadInit ==
    /\ DInit({<<>>}, {FALSE})
    /\ active = {}
    /\ UInit

UploadNext ==
    \/ UploadFile /\ UNCHANGED dvars
    \/ TeeRead /\ UNCHANGED dvars
    \/ UploadStream /\ UNCHANGED dvars
    \/ OverwriteStream /\ UNCHANGED dvars
    \/ MsStart /\ UNCHANGED dvars
    \/ MsHeader /\ UNCHANGED dvars
    \/ MsRead /\ UNCHANGED dvars
    \/ MsYield /\ UNCHANGED dvars
    \/ MsEnd /\ UNCHANGED dvars
    \/ UploadReturn /\ UNCHANGED dvars

UploadSpec == UploadInit /\ [][UploadNext]_vars

\* ------------------------------------------------------------------ claims
Declared(p) == "length" \in DOMAIN kwargs[p]

\* the call was given the object's exact length
ExactLength(p) == Declared(p) /\ kwargs[p].length = Len(remote)

HasCallbacks(p) == WriteCallbacks(kwargs[p]) # <<>>

IsPrefix(s, t) == Len(s) <= Len(t) /\ s = SubSeq(t, 1, Len(s))

Ceil(a, b) == (a + b - 1) \div b

BeforeCommit == {"df_start", "df_trunc", "df_replay", "df_open_ab", "df_open_wb",
                 "cd_enter", "cd_loop", "cd_get", "cd_stream", "df_after",
                 "df_remove"}

AfterLoop == {"df_after", "df_remove", "df_rename", "done"}

\* C1: all through a download_file call the destination path shows the file
\* that was there before the call (until the commit, and after any failure),
\* nothing (between the removal and the rename), or, once the rename is done,
\* the whole staging file as chunked_download left it: a prefix of the object
\* no shorter than the declared length (the whole object when no length was
\* declared), and the staging path is gone.
C1_AtomicCommit ==
    \A p \in Procs : pc[p] # "idle" =>
        LET dest == At(dir, files, dl_path[p]) IN
        /\ pc[p] \in BeforeCommit \cup {"failed"} => dest = destBefore[p]
        /\ pc[p] = "df_rename" => dest = ABSENT
        /\ pc[p] = "done" =>
            /\ dest = onReturn[p]
            /\ ~isfile(dir, part_path(p))
            /\ IsPrefix(dest, remote)
            /\ Declared(p) => Len(dest) >= kwargs[p].length
            /\ ~Declared(p) => dest = remote

C1_Witness ==
    \E p \in Procs :
        /\ pc[p] = "done"
        /\ destBefore[p] = OldFile
        /\ Len(remote) > CHUNK_SIZE
        /\ At(dir, files, dl_path[p]) = remote

\* C2: a call given the object's length L that commits has committed exactly
\* the object's bytes, whether it started afresh and ran uninterrupted or
\* resumed from the N bytes (0 < N < L) an interrupted call left behind.
C2_ResumeIdentical ==
    \A p \in Procs :
        (pc[p] = "done" /\ ExactLength(p)) => At(dir, files, dl_path[p]) = remote

C2_Witness ==
    \E p \in Procs :
        /\ pc[p] = "done"
        /\ ExactLength(p)
        /\ DfResume(kwargs[p])
        /\ prevErr[p] = "CONN_EXCEPTION"
        /\ resumedFrom[p] > FS_RW_CHUNK_SZ + 1
        /\ resumedFrom[p] < Len(remote)
        /\ At(dir, files, dl_path[p]) = remote

\* C3: a successful resumed call with write callbacks and the object's length
\* declared has handed every callback exactly the object's bytes, in order.
C3_CallbacksSeeObject ==
    \A p \in Procs :
        (pc[p] = "done" /\ resumedFrom[p] >= 0 /\ HasCallbacks(p) /\ ExactLength(p))
            => \A i \in DOMAIN cbLog[p] : cbLog[p][i] = remote

C3_Witness ==
    \E p \in Procs :
        /\ pc[p] = "done"
        /\ HasCallbacks(p)
        /\ ExactLength(p)
        /\ resumedFrom[p] > FS_RW_CHUNK_SZ + 1
        /\ resumedFrom[p] < Len(remote)
        /\ cbLog[p][1] = remote

\* C4: a download from offset 0 with the object's length L declared and no
\* failed response has, once the loop is left, requested exactly ceil(L/C)
\* ranges, the i-th starting at (i-1)*C, each of C bytes but the last, which
\* ends at L-1, and the sink holds L bytes.
C4_WindowCount ==
    \A p \in Procs :
        (pc[p] \in AfterLoop /\ offset[p] = 0 /\ ~anyFail[p] /\ ExactLength(p)) =>
            LET L == Len(remote)
                n == Len(winLog[p])
            IN  /\ n = Ceil(L, CHUNK_SIZE)
                /\ \A i \in 1..n :
                    /\ winLog[p][i][1] = (i - 1) * CHUNK_SIZE
                    /\ i < n => winLog[p][i][2] - winLog[p][i][1] + 1 = CHUNK_SIZE
                    /\ i = n => /\ winLog[p][i][2] = L - 1
                                /\ winLog[p][i][2] - winLog[p][i][1] + 1 <= CHUNK_SIZE
                /\ Len(onReturn[p]) = L

C4_Witness ==
    \E p \in Procs :
        /\ pc[p] = "done"
        /\ offset[p] = 0
        /\ ~anyFail[p]
        /\ ExactLength(p)
        /\ Len(winLog[p]) >= 2
        /\ winLog[p][Len(winLog[p])][2] - winLog[p][Len(winLog[p])][1] + 1 < CHUNK_SIZE

\* C5: once a window has used up its attempts the call has failed with
\* FAILED_SUBREQUEST, the staging file exists with the content it had when the
\* window was first requested, and the destination is as before the call.
C5_RetryExhausted ==
    \A p \in Procs :
        /\ retries[p] >= CHUNK_MAX_RETRY =>
            /\ pc[p] \in {"cd_loop", "failed"}
            /\ pc[p] = "failed" => err[p] = "FAILED_SUBREQUEST"
        /\ err[p] = "FAILED_SUBREQUEST" =>
            /\ pc[p] = "failed"
            /\ retries[p] = CHUNK_MAX_RETRY
            /\ isfile(dir, part_path(p))
            /\ At(dir, files, part_path(p)) = partAtWin[p]
            /\ At(dir, files, dl_path[p]) = destBefore[p]

C5_Witness ==
    \E p \in Procs :
        /\ err[p] = "FAILED_SUBREQUEST"
        /\ Len(partAtWin[p]) > 0
        /\ destBefore[p] = OldFile

\* C6: with a declared length L > 0, a call whose staging file is shorter than
\* L when chunked_download returns never reaches the commit: it fails with
\* INCOMPLETE_RESULT, the staging file stays as chunked_download left it and
\* the destination is as before the call.
C6_IncompleteResult ==
    \A p \in Procs :
        /\ pc[p] \in {"df_remove", "df_rename", "done"} =>
            ~(Declared(p) /\ kwargs[p].length > 0 /\ Len(onReturn[p]) < kwargs[p].length)
        /\ err[p] = "INCOMPLETE_RESULT" =>
            /\ pc[p] = "failed"
            /\ Declared(p)
            /\ kwargs[p].length > 0
            /\ Len(onReturn[p]) < kwargs[p].length
            /\ isfile(dir, part_path(p))
            /\ At(dir, files, part_path(p)) = onReturn[p]
            /\ At(dir, files, dl_path[p]) = destBefore[p]

C6_Witness ==
    \E p \in Procs :
        /\ err[p] = "INCOMPLETE_RESULT"
        /\ Len(onReturn[p]) > 0
        /\ destBefore[p] = OldFile

\* C7: after a 416 the loop is over: the call is past chunked_download, the
\* sink holds what it held when the 416 arrived, and neither the retry error
\* nor a connection error is raised; also when the window had failed before.
C7_RangeNotSatisfiable ==
    \A p \in Procs : at416[p].seen =>
        /\ chunk_start[p] >= Len(remote)
        /\ pc[p] \in AfterLoop \cup {"failed"}
        /\ err[p] \in {"none", "INCOMPLETE_RESULT"}
        /\ retries[p] = at416[p].retries
        /\ files[at416[p].ino] = at416[p].content

C7_Witness ==
    \E p \in Procs :
        /\ at416[p].seen
        /\ at416[p].retries > 0
        /\ pc[p] = "done"

RECURSIVE Flatten(_)
Flatten(seqs) == IF seqs = <<>> THEN <<>> ELSE Head(seqs) \o Flatten(Tail(seqs))

\* the blocks of a stream up to its first empty read
RECURSIVE UpToEmpty(_)
UpToEmpty(blocks) ==
    IF blocks = <<>> \/ Head(blocks) = <<>> THEN <<>>
    ELSE <<Head(blocks)>> \o UpToEmpty(Tail(blocks))

\* first place at or after from where pat occurs in s, 0 when there is none
Find(s, pat, from) ==
    LET hits == {i \in from..(Len(s) - Len(pat) + 1) : SubSeq(s, i, i + Len(pat) - 1) = pat}
    IN  IF hits = {} THEN 0 ELSE CHOOSE i \in hits : \A j \in hits : i <= j

\* what a receiver takes for the content part: the tokens between the blank
\* line that ends the content part's headers and the closing delimiter
Deframe(s, boundary) ==
    LET h == Find(s, <<"Content-Type: application/octet-stream", "CRLF", "CRLF">>, 1)
        first == h + 3
        close == Find(s, <<"CRLF", "--", boundary, "--">>, first)
    IN  IF h = 0 \/ close = 0 THEN <<"malformed">> ELSE SubSeq(s, first, close - 1)

PayloadNonEmpty ==
    IF up_op = "upload_file" THEN Len(tee.content) > 0
    ELSE Flatten(UpToEmpty(ms_src)) # <<>>

\* C8: the request of upload_file and of upload_stream lacks the suppress
\* parameter exactly when deduplication=True was passed and the payload is
\* not empty.
C8_SuppressUnlessDedupNonEmpty ==
    up_op \in {"upload_file", "upload_stream"} =>
        (("suppress" \notin DOMAIN up_params) <=> (up_dedup /\ PayloadNonEmpty))

\* C9, as claimed: a read called with a negative ln (-1 when unspecified) is
\* capped at FS_RW_CHUNK_SZ bytes: it returns, and hands to the callbacks, no
\* larger block.
C9_NegativeReadCapped ==
    (tee_last.called /\ tee_last.ln < 0) =>
        /\ Len(tee_last.ret) <= FS_RW_CHUNK_SZ
        /\ \A i \in DOMAIN tee_cb : Len(tee_cb[i][Len(tee_cb[i])]) <= FS_RW_CHUNK_SZ

\* C9, amended: a read called with any ln other than 0 and -1 asks the wrapped
\* file for exactly FS_RW_CHUNK_SZ bytes and returns the next block of at most
\* that size; called with -1 (ln unspecified) it returns all that is left of
\* the file in one block; called with 0 it returns nothing; the callbacks
\* receive the block returned.
C9_ReadLenRule ==
    tee_last.called =>
        LET left == SubSeq(tee.content, tee_last.from + 1, Len(tee.content)) IN
        /\ tee_last.ln \notin {0, -1} =>
            /\ tee_last.req = FS_RW_CHUNK_SZ
            /\ Len(tee_last.ret) <= FS_RW_CHUNK_SZ
            /\ tee_last.ret = SubSeq(left, 1, Min(FS_RW_CHUNK_SZ, Len(left)))
        /\ tee_last.ln = -1 => tee_last.ret = left
        /\ tee_last.ln = 0 => tee_last.ret = <<>>
        /\ \A i \in DOMAIN tee_cb : tee_cb[i][Len(tee_cb[i])] = tee_last.ret

C9_Witness ==
    /\ tee_last.called
    /\ tee_last.ln = -2
    /\ Len(tee.content) - tee_last.from > FS_RW_CHUNK_SZ
    /\ Len(tee_last.ret) = FS_RW_CHUNK_SZ
    /\ tee_cb # <<>>

\* C10: the generator yields the metadata part exactly when metadata is not
\* empty, then the content header, then the stream's blocks up to its first
\* empty read, then the closing part; the content part of the body, de-framed,
\* is the concatenation of those blocks; and each read callback has received
\* every block yielded, in order, before the block is yielded.
C10_MultipartStream ==
    LET data == UpToEmpty(ms_src)
        heads == IF ms_metadata # EmptyDict
                 THEN <<MetadataPart(ms_boundary, ms_metadata), ContentHeader(ms_boundary)>>
                 ELSE <<ContentHeader(ms_boundary)>>
        yielded == SubSeq(ms_out, Len(heads) + 1, Len(ms_out))
    IN  /\ ms_pc \in {"closed", "end"} =>
            /\ ms_out = heads \o data \o <<ClosingPart(ms_boundary)>>
            /\ Deframe(Flatten(ms_out), ms_boundary) = Flatten(data)
            /\ \A i \in DOMAIN ms_cb : ms_cb[i] = data
        /\ ms_pc \in {"loop", "yield"} =>
            /\ SubSeq(ms_out, 1, Len(heads)) = heads
            /\ IsPrefix(yielded, data)
            /\ \A i \in DOMAIN ms_cb :
                ms_cb[i] = IF ms_pc = "yield" THEN Append(yielded, ms_f) ELSE yielded

C10_Witness ==
    /\ ms_pc = "end"
    /\ ms_metadata # EmptyDict
    /\ ms_cb # <<>>
    /\ Len(UpToEmpty(ms_src)) >= 2
    /\ Len(ms_src) > Len(UpToEmpty(ms_src))
    /\ Len(ms_src[1]) # Len(ms_src[2])

\* C11: the retry counter counts the failed responses of the current window
\* only: it is zero again after a 206; a window that failed is requested again
\* with the very same range; a window is requested at most CHUNK_MAX_RETRY
\* times, and once it has failed that often no request follows and the call
\* fails with FAILED_SUBREQUEST; the call fails so only when one window failed
\* CHUNK_MAX_RETRY times, whatever the earlier windows went through.
C11_PerWindowRetries ==
    \A p \in Procs :
        /\ pc[p] \in {"cd_loop", "cd_get", "cd_stream"} => retries[p] = hist[p].winFails
        /\ pc[p] = "cd_get" =>
            /\ hist[p].winFails < CHUNK_MAX_RETRY
            /\ hist[p].winFails > 0 =>
                <<chunk_start[p], chunk_end[p]>> = winLog[p][Len(winLog[p])]
        /\ hist[p].winFails >= CHUNK_MAX_RETRY =>
            /\ hist[p].winFails = CHUNK_MAX_RETRY
            /\ pc[p] \in {"cd_loop", "failed"}
        /\ err[p] = "FAILED_SUBREQUEST" => hist[p].winFails = CHUNK_MAX_RETRY

\* two windows each succeeded on their last attempt: more failures in all than
\* the ceiling, and the call completed
C11_Witness ==
    \E p \in Procs :
        /\ pc[p] = "done"
        /\ err[p] = "none"
        /\ hist[p].fullWins >= 2
        /\ (CHUNK_MAX_RETRY - 1) * hist[p].fullWins > CHUNK_MAX_RETRY

\* C12: when download_file has returned or raised, the invocation holds no
\* open handle: its staging-file handle is closed and every response it
\* obtained is closed.
C12_AllHandlesReleased ==
    \A p \in Procs :
        pc[p] \in {"done", "failed"} => (~fh[p].open /\ respOpen[p] = 0)

\* size of the staging file of p's call, 0 while the path is absent
StagingSize(d, f, p) ==
    IF isfile(d, PartPath(dl_path[p])) THEN getsize(d, f, PartPath(dl_path[p])) ELSE 0

\* C13, as claimed: a resumed call that found S bytes in the staging file has
\* truncated it to max(S - FS_RW_CHUNK_SZ, 0) bytes.
C13_TruncateOneIncrement ==
    \A p \in Procs :
        (pc[p] = "df_replay" /\ resumedFrom[p] >= 0) =>
            StagingSize(dir, files, p) =
                IF resumedFrom[p] - FS_RW_CHUNK_SZ > 0
                THEN resumedFrom[p] - FS_RW_CHUNK_SZ ELSE 0

\* C13, amended: a resumed call that found S bytes in the staging file has
\* truncated it to max(S - FS_RW_CHUNK_SZ - 1, 0) bytes: one read increment
\* and one byte are discarded, all of the file when S <= FS_RW_CHUNK_SZ + 1.
C13_TruncateMargin ==
    \A p \in Procs :
        (pc[p] = "df_replay" /\ resumedFrom[p] >= 0) =>
            LET S == resumedFrom[p]
                kept == StagingSize(dir, files, p)
            IN  /\ isfile(dir, part_path(p))
                /\ kept = IF S - FS_RW_CHUNK_SZ - 1 > 0 THEN S - FS_RW_CHUNK_SZ - 1 ELSE 0
                /\ S - kept <= FS_RW_CHUNK_SZ + 1
                /\ (kept = 0) <=> (S <= FS_RW_CHUNK_SZ + 1)

C13_Witness ==
    \E p \in Procs :
        /\ pc[p] = "df_replay"
        /\ resumedFrom[p] > FS_RW_CHUNK_SZ + 1
        /\ StagingSize(dir, files, p) = resumedFrom[p] - FS_RW_CHUNK_SZ - 1

\* the positions of a call once it has decided to resume, up to the rename
AfterResumeCheck == {"df_trunc", "df_replay", "df_open_ab", "cd_enter", "cd_loop",
                     "cd_get", "cd_stream", "df_after", "df_remove"}

\* the positions of a call that holds, or has just closed, its staging handle
Transferring == {"cd_enter", "cd_loop", "cd_get", "cd_stream", "df_after", "df_remove"}

\* C14, as claimed: no step of a run, from its first access of the staging
\* file up to the rename or the failure, leaves the staging file smaller than
\* it was.
C14_StagingNeverShrinks ==
    [][\A p \in Procs :
          pc[p] \in AfterResumeCheck =>
              StagingSize(dir', files', p) >= StagingSize(dir, files, p)]_vars

\* C14, amended: once the run has opened the staging file for the transfer
\* (after the resume truncation, or after creating it afresh) no step up to the
\* rename or the failure leaves the staging file smaller than it was.
C14_StagingGrowsInTransfer ==
    [][\A p \in Procs :
          pc[p] \in Transferring =>
              StagingSize(dir', files', p) >= StagingSize(dir, files, p)]_vars

\* a resumed run whose staging file was cut back and has grown again
C14_Witness ==
    \E p \in Procs :
        /\ pc[p] = "cd_stream"
        /\ resumedFrom[p] > FS_RW_CHUNK_SZ + 1
        /\ offset[p] > 0
        /\ StagingSize(dir, files, p) > offset[p]

\* C15: with a declared length L and start offset O, every range requested
\* lies within [O, L - 1] and spans at most CHUNK_SIZE bytes; the first window
\* starts at O and each further window at the end of the one before, plus one;
\* and when O >= L nothing is requested.
C15_WindowsWithinLength ==
    \A p \in Procs : Declared(p) =>
        LET L == kwargs[p].length
            O == offset[p]
            w == winLog[p]
            n == Len(winLog[p])
        IN  /\ pc[p] \in {"cd_get", "cd_stream"} =>
                /\ O <= chunk_start[p]
                /\ chunk_start[p] <= chunk_end[p]
                /\ chunk_end[p] <= L - 1
                /\ chunk_end[p] - chunk_start[p] + 1 <= CHUNK_SIZE
                /\ n > 0
                /\ w[n] = <<chunk_start[p], chunk_end[p]>>
            /\ \A i \in 1..n :
                /\ O <= w[i][1]
                /\ w[i][1] <= w[i][2]
                /\ w[i][2] <= L - 1
                /\ w[i][2] - w[i][1] + 1 <= CHUNK_SIZE
            /\ n > 0 => w[1][1] = O
            /\ \A i \in 1..(n - 1) : w[i + 1][1] = w[i][2] + 1
            /\ O >= L => (n = 0 /\ pc[p] \notin {"cd_get", "cd_stream"})

\* a resumed call that requested two windows, the last one cut at L - 1
C15_Witness ==
    \E p \in Procs :
        /\ Declared(p)
        /\ offset[p] > 0
        /\ Len(winLog[p]) >= 2
        /\ winLog[p][Len(winLog[p])][2] = kwargs[p].length - 1
        /\ winLog[p][Len(winLog[p])][2] - winLog[p][Len(winLog[p])][1] + 1 < CHUNK_SIZE

\* a call whose staging file is already as long as the declared length asks
\* for nothing
C15_WitnessNoRequest ==
    \E p \in Procs :
        /\ Declared(p)
        /\ kwargs[p].length > 0
        /\ offset[p] >= kwargs[p].length
        /\ pc[p] = "df_after"

\* C16: a call never has two responses open: no response is open when a
\* request is about to be sent, and a response is open only while its 206 body
\* is being iterated or after the 416 that ended the loop.
C16_OneResponseOpen ==
    \A p \in Procs :
        /\ respOpen[p] <= 1
        /\ pc[p] \in {"cd_enter", "cd_loop", "cd_get"} => respOpen[p] = 0
        /\ respOpen[p] = 1 => (pc[p] = "cd_stream" \/ at416[p].seen)

\* a request sent after a 206 was drained and a failed response closed
C16_Witness ==
    \E p \in Procs :
        /\ pc[p] = "cd_get"
        /\ Len(winLog[p]) >= 2
        /\ hist[p].winFails > 0
        /\ respOpen[p] = 0

\* two invocations run download_file at the same time, one call each or two
\* calls of one; the object has ConcLen bytes and the server answers every
\* request with 206 or 416
ConcObjects == {[i \in 1..n |-> i] : n \in {ConcLen}}

ConcInit ==
    /\ DInit(ConcObjects, {FALSE})
    /\ active = Procs
    /\ UInit

ConcNext ==
    \/ \E p \in active : Call(p) /\ UNCHANGED uvars
    \/ \E p \in active : DfCheckResume(p) /\ UNCHANGED uvars
    \/ \E p \in active : DfTruncate(p) /\ UNCHANGED uvars
    \/ \E p \in active : DfReplay(p) /\ UNCHANGED uvars
    \/ \E p \in active : DfOpenAppend(p) /\ UNCHANGED uvars
    \/ \E p \in active : DfOpenWrite(p) /\ UNCHANGED uvars
    \/ \E p \in active : CdEnter(p) /\ UNCHANGED uvars
    \/ \E p \in active : CdLoop(p) /\ UNCHANGED uvars
    \/ \E p \in active : Get416(p) /\ UNCHANGED uvars
    \/ \E p \in active : Get206(p) /\ UNCHANGED uvars
    \/ \E p \in active : StreamChunk(p) /\ UNCHANGED uvars
    \/ \E p \in active : StreamEnd(p) /\ UNCHANGED uvars
    \/ \E p \in active : DfAfter(p) /\ UNCHANGED uvars
    \/ \E p \in active : DfRemove(p) /\ UNCHANGED uvars
    \/ \E p \in active : DfRename(p) /\ UNCHANGED uvars

ConcSpec == ConcInit /\ [][ConcNext]_vars

\* the positions at which a call relies on its staging file: from its decision
\* to resume, or from its own open, up to its rename
UsesStaging == {"df_trunc", "df_replay", "df_open_ab", "cd_enter", "cd_loop",
                "cd_get", "cd_stream", "df_after", "df_remove", "df_rename"}

\* C17: the staging file of a running call changes only by that call's own
\* steps: whenever another invocation takes a step, the file at the call's
\* staging path is the same file, with the same content, after the step as
\* before; also when both calls have the same destination path.
C17_NoSharedStaging ==
    [][\A p \in Procs :
          (pc[p] \in UsesStaging /\ pc'[p] = pc[p] /\ body'[p] = body[p]) =>
              /\ dir'[part_path(p)] = dir[part_path(p)]
              /\ At(dir', files', part_path(p)) = At(dir, files, part_path(p))]_vars

ResumeOff(p) == "resume" \in DOMAIN kwargs[p] /\ kwargs[p].resume = FALSE

\* C18: a call made with resume disabled, or when no staging file is present,
\* never truncates or replays; it opens the staging file empty, whatever an
\* earlier call left in it, hands offset 0 to chunked_download, whose first
\* range starts at byte 0, and its callbacks receive the downloaded bytes only.
C18_FreshStart ==
    \A p \in Procs :
        (pc[p] # "idle" /\ (ResumeOff(p) \/ ~hist[p].hadStaging)) =>
            /\ pc[p] \notin {"df_trunc", "df_replay", "df_open_ab"}
            /\ resumedFrom[p] = -1
            /\ offset[p] = 0
            /\ pc[p] \in {"df_start", "df_open_wb", "cd_enter"} =>
                \A i \in DOMAIN cbLog[p] : cbLog[p][i] = <<>>
            /\ pc[p] = "cd_enter" =>
                /\ fh[p].mode = "wb"
                /\ files[fh[p].ino] = <<>>
                /\ At(dir, files, part_path(p)) = <<>>
            /\ pc[p] \in {"cd_loop", "cd_get", "cd_stream", "df_after"} =>
                \A i \in DOMAIN cbLog[p] : cbLog[p][i] = files[fh[p].ino]
            /\ winLog[p] # <<>> => winLog[p][1][1] = 0

\* resume disabled, a staging file left by a failed call, and the first range
\* requested
C18_Witness ==
    \E p \in Procs :
        /\ ResumeOff(p)
        /\ hist[p].hadStaging
        /\ prevErr[p] = "CONN_EXCEPTION"
        /\ HasCallbacks(p)
        /\ pc[p] = "cd_get"
        /\ Len(winLog[p]) = 1
        /\ files[fh[p].ino] = <<>>

\* C19: whenever a ranged request is sent, the write position of the sink (the
\* start offset plus the bytes appended so far) is the first byte of the range
\* requested.
C19_PositionMatchesWindow ==
    \A p \in Procs : pc[p] = "cd_get" => Tell(fh[p]) = chunk_start[p]

\* C20: a call that returned successfully with a declared length L > 0 has
\* committed a file of exactly L bytes.
C20_CommittedSizeIsLength ==
    \A p \in Procs :
        (pc[p] = "done" /\ Declared(p) /\ kwargs[p].length > 0) =>
            Len(At(dir, files, dl_path[p])) = kwargs[p].length

====
